---- MODULE Spec2Model ----
(***************************************************************************)
(* Model of .github/scripts/update_streams.py: discovery of a manifest     *)
(* (.m3u8) URL on a live page (extract_m3u8_from_page), optional stripping *)
(* of URL parameters (strip_url_parameters) and the patch of one entry of  *)
(* an m3u playlist (update_m3u_file), driven by main.  The playlist layout *)
(* is the one apps/stream-url-updater/main.py writes (create_output).      *)
(*                                                                         *)
(* Text is modelled as a sequence of lexemes.  A lexeme is a literal piece *)
(* of text that every pattern of the program treats as a unit: the scheme  *)
(* prefix "http://", the marker ".m3u8", a host or path word, one          *)
(* punctuation character, the line feed.  The regular expressions of the   *)
(* program are evaluated on these sequences as Python's re evaluates them  *)
(* on the characters: leftmost match, greedy repetition, non-overlapping   *)
(* matches from left to right.                                             *)
(***************************************************************************)
EXTENDS Integers, Sequences, FiniteSets, TLC

VARIABLES
    pc,                \* the statement the invocation is at
    preferred_domain,  \* args.preferred_domain
    strip_parameters,  \* args.strip_parameters
    entry_name,        \* args.entry_name
    browser,           \* the browser process: "none", "open" or "closed"
    page_content,      \* what page.content() returns once the visit has ended
    m3u8_urls,         \* the candidate list of extract_m3u8_from_page
    origins,           \* for each candidate, the statement that appended it
    pending,           \* the exception in flight while the finally clause runs
    m3u8_url,          \* main's m3u8_url
    file,              \* the text of the playlist on disk
    writable,          \* whether write_text succeeds
    ret,               \* what update_m3u_file returned
    log,               \* the diagnostics printed, in order
    status,            \* how the process ended
    prev,              \* what the invocation before this one did
    runs               \* invocations so far

vars == <<pc, preferred_domain, strip_parameters, entry_name, browser, page_content,
          m3u8_urls, origins, pending, m3u8_url, file, writable, ret, log, status,
          prev, runs>>

-----------------------------------------------------------------------------
(* Lexemes *)

NL == "\n"
DQ == "\""
SQ == "'"
BS == "\\"
SchemeLower == "http://"
SchemeUpper == "HTTP://"
MarkerLower == ".m3u8"
MarkerUpper == ".M3U8"
\* Python's None, where a string (a sequence of lexemes) may stand too
None == <<"None">>

\* \s of the content patterns
IsSpace(t) == t \in {" ", NL}

\* https?:// , with or without re.IGNORECASE
IsScheme(t, ignorecase) == t = SchemeLower \/ (ignorecase /\ t = SchemeUpper)

\* \.m3u8 , with or without re.IGNORECASE
IsMarker(t, ignorecase) == t = MarkerLower \/ (ignorecase /\ t = MarkerUpper)

\* s[a..b], empty when b < a
Slice(s, a, b) == IF b < a THEN << >> ELSE SubSeq(s, a, b)

\* Python's  sub in s  on strings
Contains(s, sub) ==
    \E i \in 1..(Len(s) - Len(sub) + 1) : Slice(s, i, i + Len(sub) - 1) = sub

\* Python's  x in list
InList(x, list) == \E i \in 1..Len(list) : list[i] = x

-----------------------------------------------------------------------------
(* extract_m3u8_from_page: the request observer and the content scan *)

\* handle_request without its test of the marker
handle_request_no_filter(urls, url) == Append(urls, url)

\* handle_request: the list after one observed request
handle_request(urls, url) ==
    IF Contains(url, <<MarkerLower>>) THEN Append(urls, url) ELSE urls

\* [^\s"'<>]
BareChar(t) == ~IsSpace(t) /\ t \notin {DQ, SQ, "<", ">"}

\* the last index of the run of [^\s"'<>] that follows position i
BareRunEnd(s, i) ==
    CHOOSE j \in i..Len(s) :
        /\ \A k \in (i + 1)..j : BareChar(s[k])
        /\ (j = Len(s) \/ ~BareChar(s[j + 1]))

\* https?://[^\s"'<>]+\.m3u8[^\s"'<>]*  matched at i: the end of the match, or 0
BareMatchEnd(s, i) ==
    IF /\ IsScheme(s[i], TRUE)
       /\ \E k \in (i + 2)..BareRunEnd(s, i) : IsMarker(s[k], TRUE)
    THEN BareRunEnd(s, i)
    ELSE 0

RECURSIVE FindallBareFrom(_, _)
FindallBareFrom(s, i) ==
    IF i > Len(s) THEN << >>
    ELSE LET e == BareMatchEnd(s, i)
         IN  IF e > 0
             THEN <<SubSeq(s, i, e)>> \o FindallBareFrom(s, e + 1)
             ELSE FindallBareFrom(s, i + 1)

\* re.findall(patterns[0], content, re.IGNORECASE)
FindallBare(s) == FindallBareFrom(s, 1)

\* the first index after i that holds the quote q, or 0
ClosingQuote(s, i, q) ==
    IF \E j \in (i + 1)..Len(s) : s[j] = q
    THEN CHOOSE j \in (i + 1)..Len(s) :
             s[j] = q /\ \A k \in (i + 1)..(j - 1) : s[k] # q
    ELSE 0

\* q(https?://[^q]+\.m3u8[^q]*)q  matched at i: the index of the closing quote, or 0
QuotedMatchEnd(s, i, q) ==
    IF s[i] = q /\ i + 1 <= Len(s) /\ IsScheme(s[i + 1], TRUE)
    THEN LET e == ClosingQuote(s, i + 1, q)
         IN  IF e > 0 /\ \E k \in (i + 3)..(e - 1) : IsMarker(s[k], TRUE)
             THEN e
             ELSE 0
    ELSE 0

RECURSIVE FindallQuotedFrom(_, _, _)
FindallQuotedFrom(s, i, q) ==
    IF i > Len(s) THEN << >>
    ELSE LET e == QuotedMatchEnd(s, i, q)
         IN  IF e > 0
             THEN <<SubSeq(s, i + 1, e - 1)>> \o FindallQuotedFrom(s, e + 1, q)
             ELSE FindallQuotedFrom(s, i + 1, q)

\* re.findall(patterns[1], ...) with q = DQ, re.findall(patterns[2], ...) with q = SQ
FindallQuoted(s, q) == FindallQuotedFrom(s, 1, q)

\* ["',;)\]}]
TrailChar(t) == t \in {DQ, SQ, ",", ";", ")", "]", "}"}

RECURSIVE DropTrail(_)
DropTrail(s) ==
    IF s # << >> /\ TrailChar(s[Len(s)]) THEN DropTrail(SubSeq(s, 1, Len(s) - 1)) ELSE s

\* re.sub(r'["\',;)\]}]+$', "", url_match): $ is the end of the string or the
\* place before a line feed that ends the string
TrimTrailing(s) ==
    IF s # << >> /\ s[Len(s)] = NL
    THEN DropTrail(SubSeq(s, 1, Len(s) - 1)) \o <<NL>>
    ELSE DropTrail(s)

\* the inner loop: every match trimmed, appended when not yet in the list
RECURSIVE AppendMatches(_, _)
AppendMatches(urls, matches) ==
    IF matches = << >> THEN urls
    ELSE LET url_match == TrimTrailing(Head(matches))
         IN  AppendMatches(IF InList(url_match, urls) THEN urls
                           ELSE Append(urls, url_match),
                           Tail(matches))

\* the loop over the three patterns, in their order
ScanContent(urls, content) ==
    AppendMatches(
        AppendMatches(
            AppendMatches(urls, FindallBare(content)),
            FindallQuoted(content, DQ)),
        FindallQuoted(content, SQ))

\* the selection that ends extract_m3u8_from_page
RECURSIVE FirstContaining(_, _)
FirstContaining(urls, domain) ==
    IF urls = << >> THEN None
    ELSE IF Contains(Head(urls), domain) THEN Head(urls)
    ELSE FirstContaining(Tail(urls), domain)

\* the selection without the loop over the preferred domain
SelectUrl_IgnoresDomain(urls, domain) == IF urls = << >> THEN None ELSE urls[1]

\* preferred_domain is None or a string; the empty string is falsy as None is
SelectUrl(urls, domain) ==
    IF urls = << >> THEN None
    ELSE IF domain # None /\ domain # << >> /\ FirstContaining(urls, domain) # None
         THEN FirstContaining(urls, domain)
         ELSE urls[1]

-----------------------------------------------------------------------------
(* strip_url_parameters *)

\* urlsplit first removes the line feed (and tab, carriage return) from the URL
RECURSIVE RemoveUnsafe(_)
RemoveUnsafe(url) ==
    IF url = << >> THEN << >>
    ELSE IF Head(url) = NL THEN RemoveUnsafe(Tail(url))
    ELSE <<Head(url)>> \o RemoveUnsafe(Tail(url))

\* the prefix of the URL before its first "?" or "#": scheme, netloc and path
RECURSIVE BeforeQuery(_)
BeforeQuery(url) ==
    IF url = << >> \/ Head(url) \in {"?", "#"} THEN << >>
    ELSE <<Head(url)>> \o BeforeQuery(Tail(url))

\* urlparse lower-cases the scheme
LowerScheme(url) ==
    IF url # << >> /\ Head(url) = SchemeUpper THEN <<SchemeLower>> \o Tail(url) ELSE url

\* urlunparse((scheme, netloc, path, "", "", "")) of urlparse(url)
strip_url_parameters(url) == LowerScheme(BeforeQuery(RemoveUnsafe(url)))

-----------------------------------------------------------------------------
(* update_m3u_file *)

ExtInf == "#EXTINF:"

\* the first index >= i that holds a line feed, or 0
LineFeedFrom(s, i) ==
    IF \E j \in i..Len(s) : s[j] = NL
    THEN CHOOSE j \in i..Len(s) : s[j] = NL /\ \A k \in i..(j - 1) : s[k] # NL
    ELSE 0

\* the last index of the run of [^\n] that starts at i
LineEnd(s, i) == IF LineFeedFrom(s, i) = 0 THEN Len(s) ELSE LineFeedFrom(s, i) - 1

\* (#EXTINF:[^\n]*,NAME\n)(https?://[^\n]+)  matched at i: [g1end, g2end], the last
\* indexes of the two groups, or g1end = 0 when the pattern does not match at i
PatternAt(s, i, name) ==
    LET lf    == LineFeedFrom(s, i)
        comma == lf - Len(name) - 1
    IN  IF /\ s[i] = ExtInf
           /\ lf > 0
           /\ comma > i
           /\ s[comma] = ","
           /\ Slice(s, comma + 1, lf - 1) = name
           /\ lf + 2 <= Len(s)
           /\ IsScheme(s[lf + 1], FALSE)
           /\ s[lf + 2] # NL
        THEN [g1end |-> lf, g2end |-> LineEnd(s, lf + 1)]
        ELSE [g1end |-> 0, g2end |-> 0]

\* re.search(pattern, content): the index of the leftmost match, or 0
SearchEntry(s, name) ==
    IF \E i \in 1..Len(s) : PatternAt(s, i, name).g1end > 0
    THEN CHOOSE i \in 1..Len(s) :
             /\ PatternAt(s, i, name).g1end > 0
             /\ \A k \in 1..(i - 1) : PatternAt(s, k, name).g1end = 0
    ELSE 0

\* word lexemes of the model whose first letter is no escape of a replacement
\* template: a backslash before one raises re.error "bad escape"
BadEscapeWords == {"cdn", "old", "live", "x", "key", "html", "src=", "mirror", "A", "B", "Z",
                   SchemeLower, SchemeUpper, "u0026"}

\* whether the template  \g<1> + new_url  parses: no backslash at its end, no bad escape
RECURSIVE TemplateParses(_)
TemplateParses(t) ==
    IF t = << >> THEN TRUE
    ELSE IF Head(t) # BS THEN TemplateParses(Tail(t))
    ELSE IF Len(t) = 1 \/ t[2] \in BadEscapeWords THEN FALSE
    ELSE TemplateParses(Tail(Tail(t)))

\* the expansion of new_url as the tail of the replacement template: \n is a line
\* feed, \\ a backslash, \1 and \2 the groups, \f a form feed, any other pair is kept
RECURSIVE ExpandTemplate(_, _, _)
ExpandTemplate(t, g1, g2) ==
    IF t = << >> THEN << >>
    ELSE IF Head(t) # BS \/ Len(t) = 1
         THEN <<Head(t)>> \o ExpandTemplate(Tail(t), g1, g2)
    ELSE (CASE t[2] = "n"  -> <<NL>>
            [] t[2] = BS   -> <<BS>>
            [] t[2] = "1"  -> g1
            [] t[2] = "2"  -> g2
            [] t[2] = "file://" -> <<"\f", "ile://">>
            [] OTHER       -> <<BS, t[2]>>)
         \o ExpandTemplate(Tail(Tail(t)), g1, g2)

\* re.sub(pattern, rf"\g<1>{new_url}", content): every non-overlapping match, from
\* the left, replaced by group 1 followed by the expanded new_url
RECURSIVE SubEntriesFrom(_, _, _, _)
SubEntriesFrom(s, i, name, new_url) ==
    IF i > Len(s) THEN << >>
    ELSE LET m == PatternAt(s, i, name)
         IN  IF m.g1end > 0
             THEN SubSeq(s, i, m.g1end)
                  \o ExpandTemplate(new_url, SubSeq(s, i, m.g1end),
                                    SubSeq(s, m.g1end + 1, m.g2end))
                  \o SubEntriesFrom(s, m.g2end + 1, name, new_url)
             ELSE <<s[i]>> \o SubEntriesFrom(s, i + 1, name, new_url)

SubEntries(s, name, new_url) == SubEntriesFrom(s, 1, name, new_url)

\* update_m3u_file(file_path, new_url, entry_name) on a file that holds content:
\* what is on disk afterwards, the value returned (None when sys.exit(1) is
\* called instead) and the diagnostic printed
update_m3u_file(content, can_write, new_url, name) ==
    LET at      == SearchEntry(content, name)
        m       == PatternAt(content, at, name)
        old_url == SubSeq(content, m.g1end + 1, m.g2end)
    IN  IF at = 0
        THEN [content |-> content, ret |-> "False", diag |-> "entry not found"]
        ELSE IF old_url = new_url
        THEN [content |-> content, ret |-> "False", diag |-> "URL unchanged"]
        ELSE IF ~TemplateParses(new_url) \/ ~can_write
        THEN [content |-> content, ret |-> "exit(1)", diag |-> "Error updating m3u file"]
        ELSE [content |-> SubEntries(content, name, new_url), ret |-> "True",
              diag |-> "Updated"]

-----------------------------------------------------------------------------
(* create_output of apps/stream-url-updater/main.py: the playlist layout *)

RECURSIVE ChannelLines(_)
ChannelLines(channels) ==
    IF channels = << >> THEN << >>
    ELSE <<ExtInf, "-1", ",">> \o Head(channels).name \o <<NL>>
         \o Head(channels).link \o <<NL, NL>>
         \o ChannelLines(Tail(channels))

create_output(channels) == <<"#EXTM3U", NL, NL>> \o ChannelLines(channels)

-----------------------------------------------------------------------------
(* Bounds and inputs *)

MaxRequests == 2   \* requests with the marker observed in one visit
MaxChannels == 2   \* entries of a playlist
MaxRuns == 2       \* successive invocations on one playlist

UrlOld == <<SchemeLower, "old", MarkerLower>>
UrlCdn == <<SchemeLower, "cdn", MarkerLower>>
UrlCdnKey == <<SchemeLower, "cdn", MarkerLower, "?", "key">>
UrlLive == <<SchemeLower, "live", MarkerLower>>

\* request.url of the requests a page may issue
RequestUrls == {UrlCdnKey, UrlOld, <<SchemeLower, "old", "html">>,
                <<"file://", "x", MarkerLower>>}

\* rendered documents
Contents == {<<"<", "html", ">">>,
             <<DQ, SchemeLower, "cdn", MarkerLower, "?", "key", DQ>>,
             <<"src=", SQ, SchemeLower, "live", MarkerLower, SQ, ";">>,
             <<SchemeUpper, "live", MarkerUpper, ",">>,
             <<DQ, SchemeLower, "live", MarkerLower, BS, "n", DQ>>}

\* no --preferred-domain, an empty one, one that a candidate holds, one that none holds
PreferredDomains == {None, << >>, <<"cdn">>, <<"mirror">>}
EntryNames == {<<"A">>, <<"B">>}
Links == {UrlOld, UrlCdn}

ChannelLists ==
    UNION {[1..n -> [name : EntryNames, link : Links]] : n \in 0..MaxChannels}

\* the playlists create_output writes
Playlists == {create_output(c) : c \in ChannelLists}

\* m3u_file.exists() is false
NoFile == <<"ENOENT">>

NoPrev == [ret |-> "None", status |-> "running", log |-> << >>, url |-> None, entry |-> None]

-----------------------------------------------------------------------------
(* main and extract_m3u8_from_page, statement by statement *)

\* a with statement whose exit leaves the browser running
ExitPlaywright_LeavesBrowser(b) == b

\* leaving  with sync_playwright() as p : stopping Playwright ends its driver, and
\* the driver ends every browser it launched
ExitPlaywright(b) == IF b = "open" THEN "closed" ELSE b

\* browser.close()
BrowserClose(b) == "closed"

Init ==
    /\ pc = "main"
    /\ preferred_domain \in PreferredDomains
    /\ strip_parameters \in BOOLEAN
    /\ entry_name \in EntryNames
    /\ browser = "none"
    /\ page_content = << >>
    /\ m3u8_urls = << >>
    /\ origins = << >>
    /\ pending = "none"
    /\ m3u8_url = None
    /\ file \in Playlists \cup {NoFile}
    /\ writable \in BOOLEAN
    /\ ret = "None"
    /\ log = << >>
    /\ status = "running"
    /\ prev = NoPrev
    /\ runs = 1

\* an unhandled exception leaves main: the interpreter prints the traceback
Propagate(site) ==
    /\ pc' = "exited"
    /\ status' = "traceback"
    /\ log' = Append(log, site)

\* main, up to the call of extract_m3u8_from_page
MainStart ==
    /\ pc = "main"
    /\ IF file = NoFile
       THEN /\ pc' = "exited"
            /\ status' = "exit 1"
            /\ log' = Append(log, "Error: File not found")
       ELSE /\ pc' = "launch"
            /\ UNCHANGED <<status, log>>
    /\ UNCHANGED <<preferred_domain, strip_parameters, entry_name, browser, page_content,
                   m3u8_urls, origins, pending, m3u8_url, file, writable, ret, prev, runs>>

\* p.chromium.launch(headless=True)
Launch ==
    /\ pc = "launch"
    /\ \/ /\ browser' = "open"
          /\ pc' = "new_context"
          /\ UNCHANGED <<status, log>>
       \/ /\ browser' = ExitPlaywright(browser)
          /\ Propagate("Traceback: launch")
    /\ UNCHANGED <<preferred_domain, strip_parameters, entry_name, page_content,
                   m3u8_urls, origins, pending, m3u8_url, file, writable, ret, prev, runs>>

\* browser.new_context(...), outside the try statement
NewContext ==
    /\ pc = "new_context"
    /\ \/ /\ pc' = "new_page"
          /\ UNCHANGED <<browser, status, log>>
       \/ /\ browser' = ExitPlaywright(browser)
          /\ Propagate("Traceback: new_context")
    /\ UNCHANGED <<preferred_domain, strip_parameters, entry_name, page_content,
                   m3u8_urls, origins, pending, m3u8_url, file, writable, ret, prev, runs>>

\* context.new_page() and page.on("request", handle_request), outside the try
\* statement; then the call of page.goto is entered
NewPage ==
    /\ pc = "new_page"
    /\ \/ /\ pc' = "goto"
          /\ UNCHANGED <<browser, status, log>>
       \/ /\ browser' = ExitPlaywright(browser)
          /\ Propagate("Traceback: new_page")
    /\ UNCHANGED <<preferred_domain, strip_parameters, entry_name, page_content,
                   m3u8_urls, origins, pending, m3u8_url, file, writable, ret, prev, runs>>

NetCount == Cardinality({i \in 1..Len(origins) : origins[i] = "request"})

\* handle_request, called by Playwright's event loop.  The loop runs only inside a
\* call of the sync API: page.goto, page.content and browser.close here.  During
\* time.sleep no event is dispatched; those requests are delivered in the next call.
Request ==
    /\ pc \in {"goto", "content", "close"}
    /\ NetCount < MaxRequests
    /\ \E url \in RequestUrls :
          /\ m3u8_urls' = handle_request(m3u8_urls, url)
          /\ origins' = IF m3u8_urls' = m3u8_urls THEN origins
                        ELSE Append(origins, "request")
    /\ UNCHANGED <<pc, preferred_domain, strip_parameters, entry_name, browser,
                   page_content, pending, m3u8_url, file, writable, ret, log, status,
                   prev, runs>>

\* page.goto(url, wait_until="networkidle", timeout=60000) returns
GotoReturns ==
    /\ pc = "goto"
    /\ pc' = "sleep"
    /\ page_content' \in Contents
    /\ UNCHANGED <<preferred_domain, strip_parameters, entry_name, browser, m3u8_urls,
                   origins, pending, m3u8_url, file, writable, ret, log, status, prev, runs>>

\* page.goto raises PlaywrightTimeoutError: the except clause prints, the finally
\* clause follows
GotoTimeout ==
    /\ pc = "goto"
    /\ pc' = "close"
    /\ page_content' \in Contents
    /\ log' = Append(log, "Timeout while loading page")
    /\ UNCHANGED <<preferred_domain, strip_parameters, entry_name, browser, m3u8_urls,
                   origins, pending, m3u8_url, file, writable, ret, status, prev, runs>>

\* page.goto raises another playwright Error (the name does not resolve, the
\* connection is refused): no except clause catches it, the finally clause follows
GotoError ==
    /\ pc = "goto"
    /\ pc' = "close"
    /\ pending' = "Traceback: page.goto"
    /\ UNCHANGED <<preferred_domain, strip_parameters, entry_name, browser, page_content,
                   m3u8_urls, origins, m3u8_url, file, writable, ret, log, status,
                   prev, runs>>

\* time.sleep(5); then the call of page.content is entered
Sleep ==
    /\ pc = "sleep"
    /\ pc' = "content"
    /\ UNCHANGED <<preferred_domain, strip_parameters, entry_name, browser, page_content,
                   m3u8_urls, origins, pending, m3u8_url, file, writable, ret, log,
                   status, prev, runs>>

\* page.content() returns and the loop over the patterns runs; or page.content() raises
ContentScan ==
    /\ pc = "content"
    /\ pc' = "close"
    /\ \/ /\ m3u8_urls' = ScanContent(m3u8_urls, page_content)
          /\ origins' = origins \o [i \in 1..(Len(m3u8_urls') - Len(m3u8_urls)) |-> "scan"]
          /\ UNCHANGED pending
       \/ /\ pending' = "Traceback: page.content"
          /\ UNCHANGED <<m3u8_urls, origins>>
    /\ UNCHANGED <<preferred_domain, strip_parameters, entry_name, browser, page_content,
                   m3u8_url, file, writable, ret, log, status, prev, runs>>

\* finally: browser.close() returns; an exception in flight then leaves the with
\* statement, the function and main
Close ==
    /\ pc = "close"
    /\ page_content' = << >>
    /\ IF pending = "none"
       THEN /\ browser' = BrowserClose(browser)
            /\ pc' = "select"
            /\ UNCHANGED <<status, log>>
       ELSE /\ browser' = ExitPlaywright(BrowserClose(browser))
            /\ Propagate(pending)
    /\ pending' = "none"
    /\ UNCHANGED <<preferred_domain, strip_parameters, entry_name, m3u8_urls, origins,
                   m3u8_url, file, writable, ret, prev, runs>>

\* the selection, the return through the with statement, and main's test of the result
Select ==
    /\ pc = "select"
    /\ m3u8_url' = SelectUrl(m3u8_urls, preferred_domain)
    /\ browser' = ExitPlaywright(browser)
    /\ IF m3u8_url' = None
       THEN /\ pc' = "exited"
            /\ status' = "exit 0"
            /\ log' = log \o <<"No m3u8 link found", "No m3u8 link found - skipping update">>
       ELSE /\ pc' = "strip"
            /\ UNCHANGED <<status, log>>
    /\ UNCHANGED <<preferred_domain, strip_parameters, entry_name, page_content,
                   m3u8_urls, origins, pending, file, writable, ret, prev, runs>>

\* main: if args.strip_parameters
Strip ==
    /\ pc = "strip"
    /\ pc' = "update"
    /\ m3u8_url' = IF strip_parameters THEN strip_url_parameters(m3u8_url) ELSE m3u8_url
    /\ UNCHANGED <<preferred_domain, strip_parameters, entry_name, browser, page_content,
                   m3u8_urls, origins, pending, file, writable, ret, log, status,
                   prev, runs>>

\* main: updated = update_m3u_file(...), and the line main prints for it
Update ==
    /\ pc = "update"
    /\ pc' = "exited"
    /\ LET r == update_m3u_file(file, writable, m3u8_url, entry_name)
       IN  /\ file' = r.content
           /\ ret' = r.ret
           /\ status' = IF r.ret = "exit(1)" THEN "exit 1" ELSE "exit 0"
           /\ log' = log \o <<r.diag>> \o
                     (CASE r.ret = "True"  -> <<"Successfully updated stream URL">>
                        [] r.ret = "False" -> <<"No update needed">>
                        [] OTHER           -> << >>)
    /\ UNCHANGED <<preferred_domain, strip_parameters, entry_name, browser, page_content,
                   m3u8_urls, origins, pending, m3u8_url, writable, prev, runs>>

Next ==
    \/ MainStart
    \/ Launch
    \/ NewContext
    \/ NewPage
    \/ Request
    \/ GotoReturns
    \/ GotoTimeout
    \/ GotoError
    \/ Sleep
    \/ ContentScan
    \/ Close
    \/ Select
    \/ Strip
    \/ Update

Spec == Init /\ [][Next]_vars

-----------------------------------------------------------------------------
(* An invocation on one fixed playlist: what varies is the page visit *)

InitExtract ==
    /\ Init
    /\ file = create_output(<<[name |-> <<"A">>, link |-> UrlOld]>>)
    /\ entry_name = <<"A">>
    /\ writable

SpecExtract == InitExtract /\ [][Next]_vars

-----------------------------------------------------------------------------
(* Successive invocations on one playlist, each taken up where its discovery  *)
(* has returned (and main has stripped) m3u8_url                             *)

\* URLs Spec reaches at the call of update_m3u_file
DiscoveredUrls == {UrlOld, UrlCdn, UrlCdnKey, UrlLive,
                   <<SchemeUpper, "live", MarkerUpper>>,
                   <<SchemeLower, "live", MarkerLower, BS, "n">>}

InitUpdate ==
    /\ pc = "update"
    /\ preferred_domain = None
    /\ strip_parameters = FALSE
    /\ entry_name \in EntryNames
    /\ browser = "closed"
    /\ page_content = << >>
    /\ m3u8_urls = << >>
    /\ origins = << >>
    /\ pending = "none"
    /\ m3u8_url \in DiscoveredUrls
    /\ file \in Playlists
    /\ writable \in BOOLEAN
    /\ ret = "None"
    /\ log = << >>
    /\ status = "running"
    /\ prev = NoPrev
    /\ runs = 1

\* the next invocation of the script, with its own --entry-name
Reinvoke ==
    /\ pc = "exited"
    /\ runs < MaxRuns
    /\ runs' = runs + 1
    /\ prev' = [ret |-> ret, status |-> status, log |-> log, url |-> m3u8_url,
                entry |-> entry_name]
    /\ pc' = "update"
    /\ entry_name' \in EntryNames
    /\ m3u8_url' \in DiscoveredUrls
    /\ ret' = "None"
    /\ log' = << >>
    /\ status' = "running"
    /\ UNCHANGED <<preferred_domain, strip_parameters, browser, page_content, m3u8_urls,
                   origins, pending, file, writable>>

NextUpdate == Update \/ Reinvoke

SpecUpdate == InitUpdate /\ [][NextUpdate]_vars

-----------------------------------------------------------------------------
(* Properties *)

Last(l) == IF l = << >> THEN "" ELSE l[Len(l)]

UpdateDiags == {"entry not found", "URL unchanged", "Error updating m3u file", "Updated"}

\* the diagnostic update_m3u_file printed in a run with log l, "" when it was not called
DiagOf(l) ==
    IF \E i \in 1..Len(l) : l[i] \in UpdateDiags
    THEN l[CHOOSE i \in 1..Len(l) : l[i] \in UpdateDiags]
    ELSE ""

TimedOut == InList("Timeout while loading page", log)

\* new differs from old at most in the URL line of the first entry called name
OnlyFirstUrlLineDiffers(old, new, name) ==
    LET at   == SearchEntry(old, name)
        m    == PatternAt(old, at, name)
        tail == Len(old) - m.g2end
    IN  /\ at > 0
        /\ Len(new) >= m.g1end + tail
        /\ SubSeq(new, 1, m.g1end) = SubSeq(old, 1, m.g1end)
        /\ Slice(new, Len(new) - tail + 1, Len(new)) = Slice(old, m.g2end + 1, Len(old))

\* C1: when update_m3u_file rewrites the playlist, the written text differs from
\* the text read only in the URL line of the first entry whose metadata line ends
\* with the entry name; later entries of the same name keep their URL lines.
C1_OnlyFirstEntryRewritten ==
    [][(pc = "update" /\ ret' = "True")
         => OnlyFirstUrlLineDiffers(file, file', entry_name)]_vars

\* C2: after a navigation timeout the candidate list that goes to the selection
\* holds every URL the static scan finds in the page content (the scan still runs).
C2_ScanRunsAfterTimeout ==
    (pc = "close" /\ TimedOut /\ pending = "none")
        => \A i \in 1..Len(ScanContent(<< >>, page_content)) :
               InList(ScanContent(<< >>, page_content)[i], m3u8_urls)

\* C3: two invocations whose outcomes differ among "entry not found", "URL
\* unchanged" and "write failed" never give the caller the same signal: the value
\* update_m3u_file returns, the last line main prints and the exit status.
C3_OutcomesHaveDistinctSignals ==
    (/\ pc = "exited"
     /\ runs > 1
     /\ DiagOf(log) \in UpdateDiags \ {"Updated"}
     /\ DiagOf(prev.log) \in UpdateDiags \ {"Updated"}
     /\ DiagOf(log) # DiagOf(prev.log))
        => <<ret, Last(log), status>> # <<prev.ret, Last(prev.log), prev.status>>

\* C4: the candidate list never holds the same URL string twice.
C4_NoDuplicateCandidates ==
    \A i, j \in 1..Len(m3u8_urls) : i # j => m3u8_urls[i] # m3u8_urls[j]

MatchingCandidates ==
    {i \in 1..Len(m3u8_urls) : Contains(m3u8_urls[i], preferred_domain)}

\* the selection has returned and main has not yet stripped the URL
SelectionReturned ==
    \/ pc = "strip"
    \/ pc = "exited" /\ Last(log) = "No m3u8 link found - skipping update"

\* C5: the selection returns None for an empty list; else the first candidate, in
\* collected order, that contains the preferred domain when one is set and some
\* candidate contains it; else the first candidate.
C5_SelectionPolicy ==
    SelectionReturned =>
        IF m3u8_urls = << >> THEN m3u8_url = None
        ELSE IF preferred_domain # None /\ MatchingCandidates # {}
        THEN \E i \in MatchingCandidates :
                 /\ \A k \in MatchingCandidates : i <= k
                 /\ m3u8_url = m3u8_urls[i]
        ELSE m3u8_url = m3u8_urls[1]

C5_Witness ==
    /\ pc = "strip"
    /\ preferred_domain = <<"cdn">>
    /\ Len(m3u8_urls) >= 2
    /\ m3u8_url = m3u8_urls[2]
    /\ ~Contains(m3u8_urls[1], preferred_domain)

\* C6: in the candidate list every URL the request observer appended precedes
\* every URL the content scan appended.
C6_RequestsPrecedeScan ==
    \A i, j \in 1..Len(origins) :
        (origins[i] = "scan" /\ origins[j] = "request") => j < i

\* C7: once extract_m3u8_from_page has been left, by a return or by an exception
\* raised after the launch, the browser it launched is closed.
C7_BrowserClosedOnEveryExit ==
    pc \in {"strip", "update", "exited"} => browser # "open"

C7_Witness ==
    /\ pc = "exited"
    /\ status = "traceback"
    /\ Last(log) = "Traceback: new_page"
    /\ browser = "closed"

\* C8: no invocation ends with the exception of a failed navigation: page.goto's
\* failure is absorbed inside the discovery.
C8_NavigationFailureAbsorbed ==
    ~(status = "traceback" /\ Last(log) = "Traceback: page.goto")

\* C9 as stated: every candidate begins with "http://" or "https://" and contains
\* ".m3u8".
C9_CandidatesAreHttpManifests ==
    \A i \in 1..Len(m3u8_urls) :
        /\ IsScheme(m3u8_urls[i][1], FALSE)
        /\ Contains(m3u8_urls[i], <<MarkerLower>>)

\* C9 as amended: a candidate the request observer appended contains ".m3u8"; a
\* candidate the content scan appended begins with "http://" or "https://" and
\* contains ".m3u8", both in any letter case.
C9_CandidatesHoldMarker ==
    \A i \in 1..Len(m3u8_urls) :
        /\ origins[i] = "request" => Contains(m3u8_urls[i], <<MarkerLower>>)
        /\ origins[i] = "scan" =>
              /\ IsScheme(m3u8_urls[i][1], TRUE)
              /\ \E k \in 2..Len(m3u8_urls[i]) : IsMarker(m3u8_urls[i][k], TRUE)

C9_Witness ==
    \E i, j \in 1..Len(m3u8_urls) :
        /\ origins[i] = "request"
        /\ m3u8_urls[i][1] = "file://"
        /\ origins[j] = "scan"
        /\ m3u8_urls[j][1] = SchemeUpper

\* C10: the playlist is written only when update_m3u_file returns True, and an
\* update run again with the same URL and entry name right after one that
\* returned True returns False and leaves the playlist as it is.
C10_WrittenOnlyWhenChangedAndIdempotent ==
    [][/\ file' # file => ret' = "True"
       /\ (/\ pc = "update"
           /\ pc' = "exited"
           /\ prev.ret = "True"
           /\ prev.url = m3u8_url
           /\ prev.entry = entry_name)
              => (ret' = "False" /\ file' = file)]_vars

====
